---- MODULE Spec2Model ----
(***************************************************************************)
(* Model of network-router-rs: the distribution strategies, the UDP and    *)
(* TCP forwarding sessions, the session manager, the rule store and the    *)
(* REST handlers over it.                                                  *)
(*                                                                         *)
(* Eight specifications share the module:                                  *)
(*   SpecStrategy  a strategy built from a rule, called repeatedly         *)
(*   SpecUdp       one UDP session running UdpSession::start               *)
(*   SpecTcp       one TCP session running TcpSession::run                 *)
(*   SpecTransfer  one transfer of a TCP session, from its dial on         *)
(*   Spec          the rule store behind Manager::add_rule and the REST    *)
(*                 handlers                                                *)
(*   SpecLock      the handlers of concurrent requests, step by step under *)
(*                 the lock of the store                                   *)
(*   SpecSessions  the sessions the manager spawned, running beside the    *)
(*                 delete and update handlers                              *)
(*   SpecManager   the manager's lifecycle: the session tasks it spawned,  *)
(*                 start and shutdown                                      *)
(* Each specification leaves the variables of the other parts untouched.   *)
(***************************************************************************)
EXTENDS Integers, Sequences, FiniteSets, TLC

VARIABLES
    \* --- strategy under test (SpecStrategy)
    stratRule,      \* the rule the strategy was made from
    strat,          \* the strategy object (its private peers and cursor)
    returned,       \* history: the value of each destinations() call, in order
    stratPanicked,  \* a destinations() call panicked (index out of bounds)
    \* --- one UDP session (SpecUdp)
    udpRule,        \* the rule the session was created for
    udpStrategy,    \* the session's strategy
    udpPc,          \* "bind" | "recv" | "send" | "done"
    udpBuf,         \* buf[0..bytes] of the datagram being dispatched
    udpPending,     \* destinations of the current datagram not yet sent to
    udpResult,      \* "running" | "Ok" | "Err" | "Panic"
    udpRecvd,       \* history: payload of every datagram recv returned
    udpSent,        \* history: every send_to call issued
    \* --- rule store, manager and REST handlers (Spec)
    database,       \* Database.rules : Vec<Option<Rule>>
    sessions,       \* Manager.sessions: one entry per spawned session
    started,        \* Manager::start has spawned the HTTP service
    reply,          \* the last HTTP exchange: request and response
    ret,            \* what the Database method called by the last request returned
    created,        \* history: ids handed out by Database::create_rule, in order
    request,        \* the rule in the body of the last create or update
    \* --- the manager's lifecycle and its session tasks (SpecSessions,
    \*     SpecManager)
    tasks,          \* per entry of sessions: the id its rule got, the task's status
    startReturned,  \* Manager::start has returned
    sender,         \* Manager.sender : Option<Sender<Action>>
    delivered,      \* Actions sent into the channel held by the HTTP service
    event,          \* the last datagram a session dispatched
    serving,        \* the HTTP service task runs (and holds the receiver)
    shutdowns,      \* history: each shutdown() call, when made and its outcome
    addr,           \* Manager.addr : the HTTP listen address, if configured
    \* --- one TCP session (SpecTcp)
    tcpRule,        \* the rule the session was created for
    tcpStrategy,    \* the session's strategy
    tcpPc,          \* "bind" | "accept" | "done"
    tcpResult,      \* "running" | "Ok" | "Err" | "Panic" | "AssertFailed"
    tcpAccepted,    \* history: connections accept has returned
    tcpConsults,    \* history: calls of strategy.destinations()
    tcpAcceptErrs,  \* history: the errors accept has returned
    tcpConns,       \* the transfers spawned, in accept order
    \* --- one transfer of a TCP session (SpecTransfer)
    xferPc,         \* "connect" | "splice" | "closed"
    xferResult,     \* "running" | "Ok" | "Err"
    xferStream,     \* per direction: the bytes its source sends before EOF
    pump,           \* per direction: the copy's position, bytes read and written
    wrShut,         \* per socket: its write half was shut down
    \* --- the handlers of concurrent requests on the store (SpecLock)
    rwlock,         \* the RwLock of DbRef: the task writing, the tasks reading
    handler         \* per request task: the request, its position, its locals

stratVars == <<stratRule, strat, returned, stratPanicked>>
udpVars == <<udpRule, udpStrategy, udpPc, udpBuf, udpPending, udpResult,
             udpRecvd, udpSent>>
restVars == <<reply, ret, request>>
chanVars == <<serving, shutdowns>>
mgrVars == <<tasks, startReturned, sender, delivered, event, chanVars, addr>>
storeVars == <<database, sessions, started, created, restVars, mgrVars>>
tcpVars == <<tcpRule, tcpStrategy, tcpPc, tcpResult, tcpAccepted, tcpConsults,
             tcpAcceptErrs, tcpConns>>
xferVars == <<xferPc, xferResult, xferStream, pump, wrShut>>
lockVars == <<rwlock, handler>>
vars == <<stratVars, udpVars, storeVars, tcpVars, xferVars, lockVars>>

(***************************************************************************)
(* Bounds of the model.                                                    *)
(***************************************************************************)
MaxPeers == 3       \* longest destination list of a rule
MaxCalls == 6       \* destinations() calls made on the strategy under test
MaxDatagrams == 4   \* datagrams one UDP session receives
MaxRules == 2       \* rules ever created in the store
MaxConfigRules == 2 \* rules loaded from the configuration before start()
MaxSessionRules == 1 \* of these, rules whose sessions SpecSessions follows
MaxShutdowns == 2   \* calls of Manager::shutdown
MaxConns == 3       \* connections one TCP session accepts
MaxBytes == 2       \* bytes each side of a spliced connection sends
MaxClients == 3     \* requests handled concurrently on the store

(***************************************************************************)
(* Option<T>: None is the empty sequence, Some(x) the one-element one.     *)
(***************************************************************************)
None == <<>>
Some(x) == <<x>>
IsSome(o) == Len(o) = 1
Unwrap(o) == o[1]

Min(a, b) == IF a <= b THEN a ELSE b

(***************************************************************************)
(* Rules (session/rules.rs).  Endpoints are named socket addresses.        *)
(***************************************************************************)
Protocols == {"Udp", "Tcp"}
Modes == {"RoundRobin", "Broadcast"}
Sources == {"s1", "s2"}
Dests == {"d1", "d2"}

SeqsUpTo(S, n) == UNION { [1..k -> S] : k \in 0..n }
DestLists == SeqsUpTo(Dests, MaxPeers)

Rule(p, m, s, ds) ==
    [protocol |-> p, mode |-> m, source |-> s, destinations |-> ds]

AllRules ==
    { Rule(p, m, s, ds) : p \in Protocols, m \in Modes, s \in Sources,
                          ds \in DestLists }

(***************************************************************************)
(* Strategies (session/strategy.rs).  peers is the strategy's own copy of  *)
(* the destination list; next is the 0-based round-robin cursor.           *)
(***************************************************************************)
BroadcastStrategy_new(peers) == [kind |-> "Broadcast", peers |-> peers]

RoundRobinStrategy_new(peers) ==
    [kind |-> "RoundRobin", next |-> 0, peers |-> peers]

StrategyFactory_make(rule) ==
    IF rule.mode = "Broadcast"
    THEN BroadcastStrategy_new(rule.destinations)
    ELSE RoundRobinStrategy_new(rule.destinations)

\* A destinations() call: panic (peers[next] out of bounds), or the value
\* returned together with the strategy after the call.
CallPanic == [panic |-> TRUE]
CallOk(v, s) == [panic |-> FALSE, value |-> v, after |-> s]

Broadcast_first_only(s) ==
    CallOk(IF s.peers = <<>> THEN <<>> ELSE <<s.peers[1]>>, s)

BroadcastStrategy_destinations(s) == CallOk(s.peers, s)

RoundRobin_advance_stuck(s) == s.next

RoundRobin_advance(s) ==
    IF s.next + 1 >= Len(s.peers) THEN 0 ELSE s.next + 1

RoundRobinStrategy_destinations(s) ==
    IF s.next >= Len(s.peers)
    THEN CallPanic
    ELSE CallOk(<<s.peers[s.next + 1]>>,
                [s EXCEPT !.next = RoundRobin_advance(s)])

Strategy_destinations(s) ==
    IF s.kind = "Broadcast"
    THEN BroadcastStrategy_destinations(s)
    ELSE RoundRobinStrategy_destinations(s)

(***************************************************************************)
(* SpecStrategy: a strategy is made from any rule and called repeatedly.   *)
(***************************************************************************)
StratInit ==
    /\ stratRule \in AllRules
    /\ strat = StrategyFactory_make(stratRule)
    /\ returned = <<>>
    /\ stratPanicked = FALSE

\* The strategy under test where a specification does not exercise it.
StratIdle ==
    /\ stratRule = Rule("Udp", "Broadcast", "s1", <<>>)
    /\ strat = StrategyFactory_make(stratRule)
    /\ returned = <<>>
    /\ stratPanicked = FALSE

CallDestinations ==
    /\ ~stratPanicked
    /\ Len(returned) < MaxCalls
    /\ LET c == Strategy_destinations(strat) IN
         IF c.panic
         THEN /\ stratPanicked' = TRUE
              /\ UNCHANGED <<strat, returned>>
         ELSE /\ strat' = c.after
              /\ returned' = Append(returned, c.value)
              /\ UNCHANGED stratPanicked
    /\ UNCHANGED <<stratRule, udpVars, storeVars, tcpVars, xferVars, lockVars>>

(***************************************************************************)
(* The UDP session (protocol/udp.rs, UdpSession::start).  A datagram on    *)
(* the wire is a tag naming its content and a length; recv copies at most  *)
(* BufSize bytes of it into the buffer.                                    *)
(***************************************************************************)
BufSize == 1500

WireDatagrams ==
    { [tag |-> "p0", len |-> 0, from |-> "c1"],
      [tag |-> "p1", len |-> 11, from |-> "c1"],
      [tag |-> "p2", len |-> BufSize + 1, from |-> "d1"] }

\* The address the datagram with this content came from: a client, or a
\* destination answering.  socket.recv does not report it.
WireFrom(tag) == (CHOOSE d \in WireDatagrams : d.tag = tag).from

\* buf[0..bytes] after recv of datagram d
Received(d) == [tag |-> d.tag, bytes |-> Min(d.len, BufSize)]

UdpRules == { r \in AllRules : r.protocol = "Udp" /\ r.source = "s1" }

UdpSession_new(rule) ==
    /\ udpRule = rule
    /\ udpStrategy = StrategyFactory_make(rule)
    /\ udpPc = "bind"
    /\ udpBuf = None
    /\ udpPending = <<>>
    /\ udpResult = "running"
    /\ udpRecvd = <<>>
    /\ udpSent = <<>>

UdpInit == \E rule \in UdpRules : UdpSession_new(rule)

\* The session where a specification does not exercise it.
UdpIdle == UdpSession_new(Rule("Udp", "Broadcast", "s1", <<>>))

UdpFinish(result) ==
    /\ udpPc' = "done"
    /\ udpResult' = result
    /\ udpPending' = <<>>

\* UdpSocket::bind(&source): the session fails with the bind error, or
\* starts listening.
UdpBind ==
    /\ udpPc = "bind"
    /\ \E ok \in BOOLEAN :
         IF ok
         THEN /\ udpPc' = "recv"
              /\ UNCHANGED <<udpResult, udpPending>>
         ELSE UdpFinish("Err")
    /\ UNCHANGED <<udpRule, udpStrategy, udpBuf, udpRecvd, udpSent>>
    /\ UNCHANGED <<stratVars, storeVars, tcpVars, xferVars, lockVars>>

\* socket.recv fails: the session returns the error.
UdpRecvErr ==
    /\ udpPc = "recv"
    /\ UdpFinish("Err")
    /\ UNCHANGED <<udpRule, udpStrategy, udpBuf, udpRecvd, udpSent>>
    /\ UNCHANGED <<stratVars, storeVars, tcpVars, xferVars, lockVars>>

UdpDispatch_no_break(buf) ==
    LET c == Strategy_destinations(udpStrategy) IN
    IF c.panic
    THEN /\ UdpFinish("Panic")
         /\ UNCHANGED udpStrategy
    ELSE /\ udpStrategy' = c.after
         /\ udpPending' = c.value
         /\ udpPc' = IF c.value = <<>> THEN "recv" ELSE "send"
         /\ UNCHANGED udpResult

\* What the loop does with a received datagram up to its next await: break
\* on zero bytes, else ask the strategy and start the fan-out.
UdpDispatch(buf) ==
    IF buf.bytes = 0
    THEN /\ UdpFinish("Ok")
         /\ UNCHANGED udpStrategy
    ELSE LET c == Strategy_destinations(udpStrategy) IN
         IF c.panic
         THEN /\ UdpFinish("Panic")
              /\ UNCHANGED udpStrategy
         ELSE /\ udpStrategy' = c.after
              /\ udpPending' = c.value
              /\ udpPc' = IF c.value = <<>> THEN "recv" ELSE "send"
              /\ UNCHANGED udpResult

UdpRecv ==
    /\ udpPc = "recv"
    /\ Len(udpRecvd) < MaxDatagrams
    /\ \E d \in WireDatagrams :
         /\ udpBuf' = Some(Received(d))
         /\ udpRecvd' = Append(udpRecvd, Received(d))
         /\ UdpDispatch(Received(d))
    /\ UNCHANGED <<udpRule, udpSent>>
    /\ UNCHANGED <<stratVars, storeVars, tcpVars, xferVars, lockVars>>

\* The session after send_to returned: an error ends it, success moves to
\* the next destination, and to the next recv after the last one.
UdpAfterSend(ok) ==
    IF ok
    THEN /\ udpPending' = Tail(udpPending)
         /\ udpPc' = IF Tail(udpPending) = <<>> THEN "recv" ELSE "send"
         /\ UNCHANGED udpResult
    ELSE UdpFinish("Err")

\* The payload handed to send_to: &buf[0..bytes].
SendPayload(buf) == buf

\* The address handed to send_to: the loop variable addr.
SendTarget_first(rule, pending) == rule.destinations[1]

SendTarget_reply(rule, pending) == WireFrom(Unwrap(udpBuf).tag)

SendTarget(rule, pending) == Head(pending)

UdpSendTo ==
    /\ udpPc = "send"
    /\ \E ok \in BOOLEAN :
         /\ udpSent' = Append(udpSent,
                [k |-> Len(udpRecvd) - 1,
                 addr |-> SendTarget(udpRule, udpPending),
                 payload |-> SendPayload(Unwrap(udpBuf)),
                 ok |-> ok])
         /\ UdpAfterSend(ok)
    /\ UNCHANGED <<udpRule, udpStrategy, udpBuf, udpRecvd>>
    /\ UNCHANGED <<stratVars, storeVars, tcpVars, xferVars, lockVars>>

(***************************************************************************)
(* The TCP session (protocol/tcp.rs, TcpSession::run).  Every accepted     *)
(* connection gets a transfer task of its own; here a transfer is its dial *)
(* and whether it relayed anything, SpecTransfer has it pump by pump.      *)
(***************************************************************************)
TcpRules == { r \in AllRules : r.protocol = "Tcp" /\ r.source = "s1" }

TcpSession_new(rule) ==
    /\ tcpRule = rule
    /\ tcpStrategy = StrategyFactory_make(rule)
    /\ tcpPc = "bind"
    /\ tcpResult = "running"
    /\ tcpAccepted = 0
    /\ tcpConsults = 0
    /\ tcpAcceptErrs = <<>>
    /\ tcpConns = <<>>

TcpInit == \E rule \in TcpRules : TcpSession_new(rule)

\* The session where a specification does not exercise it.
TcpIdle == TcpSession_new(Rule("Tcp", "RoundRobin", "s1", <<>>))

TcpFinish(result) ==
    /\ tcpPc' = "done"
    /\ tcpResult' = result

\* TcpListener::bind(source): the session fails with the bind error, or
\* starts accepting.
TcpBind ==
    /\ tcpPc = "bind"
    /\ \E ok \in BOOLEAN :
         IF ok
         THEN tcpPc' = "accept" /\ UNCHANGED tcpResult
         ELSE TcpFinish("Err")
    /\ UNCHANGED <<tcpRule, tcpStrategy, tcpAccepted, tcpConsults,
                   tcpAcceptErrs, tcpConns>>
    /\ UNCHANGED <<stratVars, udpVars, storeVars, xferVars, lockVars>>

\* The transfer spawned for the k-th accepted connection (k from 0).
Transfer(k, dest) ==
    [k |-> k, dest |-> dest, dial |-> "pending", state |-> "dialing",
     relayed |-> FALSE]

\* accept returns a connection: the strategy is asked, the assertion is
\* checked and the transfer to destinations[0] is spawned.
TcpAccept ==
    /\ tcpPc = "accept"
    /\ tcpAccepted < MaxConns
    /\ tcpAccepted' = tcpAccepted + 1
    /\ tcpConsults' = tcpConsults + 1
    /\ LET c == Strategy_destinations(tcpStrategy) IN
         IF c.panic
         THEN /\ TcpFinish("Panic")
              /\ UNCHANGED <<tcpStrategy, tcpConns>>
         ELSE /\ tcpStrategy' = c.after
              /\ IF Len(c.value) # 1
                 THEN /\ TcpFinish("AssertFailed")
                      /\ UNCHANGED tcpConns
                 ELSE /\ tcpConns' =
                           Append(tcpConns, Transfer(tcpAccepted, c.value[1]))
                      /\ UNCHANGED <<tcpPc, tcpResult>>
    /\ UNCHANGED <<tcpRule, tcpAcceptErrs>>
    /\ UNCHANGED <<stratVars, udpVars, storeVars, xferVars, lockVars>>

\* accept returns an error, of whatever kind: the while let loop is over
\* and run returns Ok(()).
TcpAcceptErr ==
    /\ tcpPc = "accept"
    /\ \E kind \in {"transient", "fatal"} :
         tcpAcceptErrs' = Append(tcpAcceptErrs, kind)
    /\ TcpFinish("Ok")
    /\ UNCHANGED <<tcpRule, tcpStrategy, tcpAccepted, tcpConsults, tcpConns>>
    /\ UNCHANGED <<stratVars, udpVars, storeVars, xferVars, lockVars>>

AfterDial_ignores_failure(conn, ok) ==
    [conn EXCEPT !.dial = IF ok THEN "ok" ELSE "failed", !.state = "spliced"]

\* TcpStream::connect(proxy_addr).await?: on an error transfer returns,
\* which drops (closes) the inbound stream; else the streams are spliced.
AfterDial(conn, ok) ==
    IF ok
    THEN [conn EXCEPT !.dial = "ok", !.state = "spliced"]
    ELSE [conn EXCEPT !.dial = "failed", !.state = "closed"]

TcpConnect ==
    /\ \E c \in 1..Len(tcpConns), ok \in BOOLEAN :
         /\ tcpConns[c].state = "dialing"
         /\ tcpConns' = [tcpConns EXCEPT ![c] = AfterDial(tcpConns[c], ok)]
    /\ UNCHANGED <<tcpRule, tcpStrategy, tcpPc, tcpResult, tcpAccepted,
                   tcpConsults, tcpAcceptErrs>>
    /\ UNCHANGED <<stratVars, udpVars, storeVars, xferVars, lockVars>>

\* A pump of a spliced transfer copies bytes to the other side.
TcpRelay ==
    /\ \E c \in 1..Len(tcpConns) :
         /\ tcpConns[c].state = "spliced"
         /\ ~tcpConns[c].relayed
         /\ tcpConns' = [tcpConns EXCEPT ![c].relayed = TRUE]
    /\ UNCHANGED <<tcpRule, tcpStrategy, tcpPc, tcpResult, tcpAccepted,
                   tcpConsults, tcpAcceptErrs>>
    /\ UNCHANGED <<stratVars, udpVars, storeVars, xferVars, lockVars>>

\* The transfer of a spliced connection returns: both streams are dropped.
TcpTransferEnd ==
    /\ \E c \in 1..Len(tcpConns) :
         /\ tcpConns[c].state = "spliced"
         /\ tcpConns' = [tcpConns EXCEPT ![c].state = "closed"]
    /\ UNCHANGED <<tcpRule, tcpStrategy, tcpPc, tcpResult, tcpAccepted,
                   tcpConsults, tcpAcceptErrs>>
    /\ UNCHANGED <<stratVars, udpVars, storeVars, xferVars, lockVars>>

(***************************************************************************)
(* One transfer (protocol/tcp.rs, transfer): the dial, then two pumps, one *)
(* per direction, each an io::copy followed by the shutdown of the write   *)
(* half it copied into; try_join waits for both and ends with the first    *)
(* error.  A stream is the bytes a side sends before it closes its         *)
(* sending direction.                                                      *)
(***************************************************************************)
Dirs == {"c2s", "s2c"}
Opp(d) == IF d = "c2s" THEN "s2c" ELSE "c2s"

\* The bytes of a direction, told apart by direction and position.
ByteAt(d, i) == <<d, i>>
Streams(d) == { [i \in 1..n |-> ByteAt(d, i)] : n \in 0..MaxBytes }

Target_same_side(d) == IF d = "c2s" THEN "inbound" ELSE "outbound"

\* The socket a pump writes into: client_to_server copies ri to wo, the
\* outbound stream; server_to_client copies ro to wi, the inbound one.
Target(d) == IF d = "c2s" THEN "outbound" ELSE "inbound"

NewPump == [pc |-> "idle", got |-> 0, buf |-> <<>>, put |-> <<>>]

XferNew(c2s, s2c) ==
    /\ xferPc = "connect"
    /\ xferResult = "running"
    /\ xferStream = [c2s |-> c2s, s2c |-> s2c]
    /\ pump = [d \in Dirs |-> NewPump]
    /\ wrShut = [inbound |-> FALSE, outbound |-> FALSE]

XferInit == \E c2s \in Streams("c2s"), s2c \in Streams("s2c") : XferNew(c2s, s2c)

\* The transfer where a specification does not exercise it.
XferIdle == XferNew(<<>>, <<>>)

\* TcpStream::connect(proxy_addr).await?
XferConnect ==
    /\ xferPc = "connect"
    /\ \E ok \in BOOLEAN :
         IF ok
         THEN /\ xferPc' = "splice"
              /\ pump' = [d \in Dirs |-> [pump[d] EXCEPT !.pc = "read"]]
              /\ UNCHANGED xferResult
         ELSE /\ xferPc' = "closed"
              /\ xferResult' = "Err"
              /\ UNCHANGED pump
    /\ UNCHANGED <<xferStream, wrShut>>
    /\ UNCHANGED <<stratVars, udpVars, storeVars, tcpVars, lockVars>>

\* io::copy reads: some of the bytes not read yet, or end-of-stream after
\* the last one, which ends the copy.
PumpRead ==
    /\ xferPc = "splice"
    /\ \E d \in Dirs :
         /\ pump[d].pc = "read"
         /\ LET left == Len(xferStream[d]) - pump[d].got IN
              IF left = 0
              THEN pump' = [pump EXCEPT ![d].pc = "shutdown"]
              ELSE \E n \in 1..left :
                     pump' = [pump EXCEPT
                                ![d].pc = "write",
                                ![d].got = @ + n,
                                ![d].buf = SubSeq(xferStream[d], pump[d].got + 1,
                                                  pump[d].got + n)]
    /\ UNCHANGED <<xferPc, xferResult, xferStream, wrShut>>
    /\ UNCHANGED <<stratVars, udpVars, storeVars, tcpVars, lockVars>>

\* io::copy writes all of what it read to the other side.
PumpWrite ==
    /\ xferPc = "splice"
    /\ \E d \in Dirs :
         /\ pump[d].pc = "write"
         /\ pump' = [pump EXCEPT ![d].pc = "read",
                                 ![d].put = @ \o pump[d].buf,
                                 ![d].buf = <<>>]
    /\ UNCHANGED <<xferPc, xferResult, xferStream, wrShut>>
    /\ UNCHANGED <<stratVars, udpVars, storeVars, tcpVars, lockVars>>

\* wo.shutdown() / wi.shutdown() after the copy: the pump is complete.
PumpShutdown ==
    /\ xferPc = "splice"
    /\ \E d \in Dirs :
         /\ pump[d].pc = "shutdown"
         /\ wrShut' = [wrShut EXCEPT ![Target(d)] = TRUE]
         /\ pump' = [pump EXCEPT ![d].pc = "done"]
    /\ UNCHANGED <<xferPc, xferResult, xferStream>>
    /\ UNCHANGED <<stratVars, udpVars, storeVars, tcpVars, lockVars>>

PumpFail_waits ==
    /\ xferPc = "splice"
    /\ \E d \in Dirs :
         /\ pump[d].pc \in {"read", "write", "shutdown"}
         /\ pump' = [pump EXCEPT ![d].pc = "failed"]
    /\ UNCHANGED <<xferPc, xferResult, xferStream, wrShut>>
    /\ UNCHANGED <<stratVars, udpVars, storeVars, tcpVars, lockVars>>

\* A read, a write or the shutdown of a pump fails: try_join returns the
\* error at once, the other pump is dropped where it stands, transfer
\* returns and both streams are dropped.
PumpFail ==
    /\ xferPc = "splice"
    /\ \E d \in Dirs :
         /\ pump[d].pc \in {"read", "write", "shutdown"}
         /\ pump' = [e \in Dirs |->
                       IF e = d THEN [pump[e] EXCEPT !.pc = "failed"]
                       ELSE IF pump[e].pc = "done" THEN pump[e]
                       ELSE [pump[e] EXCEPT !.pc = "abandoned"]]
    /\ xferPc' = "closed"
    /\ xferResult' = "Err"
    /\ UNCHANGED <<xferStream, wrShut>>
    /\ UNCHANGED <<stratVars, udpVars, storeVars, tcpVars, lockVars>>

\* Both pumps are complete: try_join returns Ok, transfer returns and both
\* streams are dropped.
XferJoin ==
    /\ xferPc = "splice"
    /\ \A d \in Dirs : pump[d].pc = "done"
    /\ xferPc' = "closed"
    /\ xferResult' = "Ok"
    /\ UNCHANGED <<xferStream, pump, wrShut>>
    /\ UNCHANGED <<stratVars, udpVars, storeVars, tcpVars, lockVars>>

(***************************************************************************)
(* The rule store (session/rules.rs, Database).  rules[id] is database[id  *)
(* + 1]; a deleted rule leaves None behind.                                *)
(***************************************************************************)
Database_new == <<>>

\* The id create_rule hands out: self.rules.len().
CreateId_live_count(db) == Len(SelectSeq(db, IsSome))

CreateId_reuse(db) ==
    IF \E i \in 1..Len(db) : db[i] = None
    THEN (CHOOSE i \in 1..Len(db) : db[i] = None) - 1
    ELSE Len(db)

CreateId(db) == Len(db)

Database_create_rule_front(db, rule) ==
    [db |-> <<Some(rule)>> \o db, id |-> CreateId(db)]

Database_create_rule(db, rule) ==
    [db |-> Append(db, Some(rule)), id |-> CreateId(db)]

\* mem::replace(&mut self.rules[id], v): panics when id is out of bounds,
\* else stores v and returns the entry that was there.
DbPanic == [panic |-> TRUE]
DbOk(db, r) == [panic |-> FALSE, db |-> db, ret |-> r]

Replace(db, id, v) ==
    IF id >= Len(db)
    THEN DbPanic
    ELSE DbOk([db EXCEPT ![id + 1] = v], db[id + 1])

Database_drop_rule_keep(db, id) ==
    IF id >= Len(db) THEN DbPanic ELSE DbOk(db, db[id + 1])

Database_drop_rule_remove(db, id) ==
    IF id >= Len(db)
    THEN DbPanic
    ELSE DbOk(SubSeq(db, 1, id) \o SubSeq(db, id + 2, Len(db)), db[id + 1])

Database_drop_rule(db, id) == Replace(db, id, None)

Database_update_rule_returns_new(db, id, rule) ==
    IF id >= Len(db)
    THEN DbPanic
    ELSE DbOk([db EXCEPT ![id + 1] = Some(rule)],
              IF IsSome(db[id + 1]) THEN Some(rule) ELSE None)

Database_update_rule(db, id, rule) == Replace(db, id, Some(rule))

Database_get_rule(db, id) == IF id < Len(db) THEN db[id + 1] ELSE None

FilterMap_reversed(db) ==
    LET live == SelectSeq(db, IsSome)
    IN  [i \in 1..Len(live) |-> Unwrap(live[Len(live) + 1 - i])]

\* handle.rules.iter().filter_map(|x| x.as_ref()).collect()
RECURSIVE FilterMap(_)
FilterMap(db) ==
    IF db = <<>> THEN <<>>
    ELSE (IF IsSome(Head(db)) THEN <<Unwrap(Head(db))>> ELSE <<>>)
         \o FilterMap(Tail(db))

(***************************************************************************)
(* Requests.  The rules a client or the configuration may submit: serde    *)
(* accepts any protocol, mode and destination list, the empty one too.     *)
(* A body that is not the JSON of a rule is None.                          *)
(***************************************************************************)
UdpBroadcastRule == Rule("Udp", "Broadcast", "s1", <<"d1", "d2">>)
UdpRoundRobinRule == Rule("Udp", "RoundRobin", "s2", <<"d2", "d1">>)
TcpBroadcastRule == Rule("Tcp", "Broadcast", "s2", <<"d1", "d2">>)
EmptyRule == Rule("Udp", "RoundRobin", "s1", <<>>)

RuleSet == {UdpBroadcastRule, UdpRoundRobinRule, TcpBroadcastRule, EmptyRule}
Bodies == {None} \cup { Some(r) : r \in RuleSet }
RuleIds == 0..MaxRules

(***************************************************************************)
(* The session manager (session/mod.rs).  add_rule spawns a session for    *)
(* the rule, tracks it and creates the rule in the store; it borrows the   *)
(* manager mutably, as start does until it returns, so rules are added     *)
(* before start.  start spawns the HTTP service over the store.            *)
(***************************************************************************)
SessionOf(rule) ==
    [source |-> rule.source, strategy |-> StrategyFactory_make(rule)]

\* The task tokio::spawn returns for the session; id is the id the rule of
\* this add_rule call gets from the store (add_rule itself drops it).
TaskOf(id) == [id |-> id, status |-> "running", joined |-> FALSE]

Manager_add_rule ==
    /\ ~started
    /\ Len(sessions) < MaxConfigRules
    /\ \E rule \in RuleSet :
         LET c == Database_create_rule(database, rule) IN
         /\ sessions' = Append(sessions, SessionOf(rule))
         /\ tasks' = Append(tasks, TaskOf(c.id))
         /\ database' = c.db
         /\ created' = Append(created, c.id)
    /\ UNCHANGED <<started, restVars, startReturned, sender, delivered, event>>
    /\ UNCHANGED chanVars
    /\ UNCHANGED <<addr, stratVars, udpVars, tcpVars, xferVars, lockVars>>

Manager_start_no_channel ==
    /\ ~started
    /\ started' = TRUE
    /\ UNCHANGED <<sender, serving>>
    /\ UNCHANGED <<database, sessions, created, restVars>>
    /\ UNCHANGED <<tasks, startReturned, delivered, event, shutdowns>>
    /\ UNCHANGED <<addr, stratVars, udpVars, tcpVars, xferVars, lockVars>>

\* start up to its first await: if an HTTP address is configured the
\* channel is made, the HTTP service is spawned with the receiver and the
\* sender is kept.
Manager_start ==
    /\ ~started
    /\ started' = TRUE
    /\ IF IsSome(addr)
       THEN sender' = Some("tx") /\ serving' = TRUE
       ELSE UNCHANGED <<sender, serving>>
    /\ UNCHANGED <<database, sessions, created, restVars>>
    /\ UNCHANGED <<tasks, startReturned, delivered, event, shutdowns>>
    /\ UNCHANGED <<addr, stratVars, udpVars, tcpVars, xferVars, lockVars>>

\* rest::service ends: warp's run(addr) panics when it cannot bind the
\* address.  The task is gone and the receiver it owned is dropped.
Service_fail ==
    /\ serving
    /\ serving' = FALSE
    /\ UNCHANGED <<database, sessions, started, created, restVars>>
    /\ UNCHANGED <<tasks, startReturned, sender, delivered, event, shutdowns>>
    /\ UNCHANGED <<addr, stratVars, udpVars, tcpVars, xferVars, lockVars>>

\* sender.take() followed by send(Action::Shutdown): the send succeeds
\* while the service holds the receiver (rest::service never reads it) and
\* fails once the receiver is dropped.
TakeAndSend_drop ==
    /\ sender' = None
    /\ delivered' = delivered

TakeAndSend ==
    /\ sender' = None
    /\ delivered' = IF IsSome(sender) /\ serving THEN delivered + 1
                    ELSE delivered

SessionsDrained_any(ts) ==
    ts = <<>> \/ \E k \in 1..Len(ts) : ts[k].joined

\* self.sessions.next() yields None: every task was yielded before.
SessionsDrained(ts) == \A k \in 1..Len(ts) : ts[k].joined

\* self.sessions.next().await yields a finished task: start logs its
\* result and the task leaves the set.
Manager_join ==
    /\ started /\ ~startReturned
    /\ \E k \in 1..Len(tasks) :
         /\ tasks[k].status \in {"Ok", "Err", "Panic"}
         /\ ~tasks[k].joined
         /\ tasks' = [tasks EXCEPT ![k].joined = TRUE]
    /\ UNCHANGED <<database, sessions, started, created, restVars>>
    /\ UNCHANGED <<startReturned, sender, delivered, event, chanVars>>
    /\ UNCHANGED <<addr, stratVars, udpVars, tcpVars, xferVars, lockVars>>

\* The loop of start is over: start sends Shutdown if it still has the
\* sender (an error of the send is printed), and returns.
Manager_return ==
    /\ started /\ ~startReturned
    /\ SessionsDrained(tasks)
    /\ TakeAndSend
    /\ startReturned' = TRUE
    /\ UNCHANGED <<database, sessions, started, created, restVars>>
    /\ UNCHANGED <<tasks, event, chanVars>>
    /\ UNCHANGED <<addr, stratVars, udpVars, tcpVars, xferVars, lockVars>>

\* What start is doing when shutdown is called.
Phase ==
    IF ~started THEN "new"
    ELSE IF startReturned THEN "returned" ELSE "waiting"

\* The outcome of shutdown: Ok after the send, Err(ShutdownFailed) after
\* a failed send, Ok after logging "Router already shut down".
ShutdownResult ==
    IF sender = None THEN "AlreadyShutDown"
    ELSE IF serving THEN "Sent" ELSE "ShutdownFailed"

ShutdownCall == [phase |-> Phase, result |-> ShutdownResult]

Manager_shutdown_keeps_sender ==
    /\ Len(shutdowns) < MaxShutdowns
    /\ sender' = sender
    /\ delivered' = IF IsSome(sender) /\ serving THEN delivered + 1
                    ELSE delivered
    /\ shutdowns' = Append(shutdowns, ShutdownCall)
    /\ UNCHANGED <<database, sessions, started, created, restVars>>
    /\ UNCHANGED <<tasks, startReturned, event, serving>>
    /\ UNCHANGED <<addr, stratVars, udpVars, tcpVars, xferVars, lockVars>>

\* Manager::shutdown, whenever its caller gets to run it: before start,
\* beside a start that is waiting, or after start returned.
Manager_shutdown ==
    /\ Len(shutdowns) < MaxShutdowns
    /\ TakeAndSend
    /\ shutdowns' = Append(shutdowns, ShutdownCall)
    /\ UNCHANGED <<database, sessions, started, created, restVars>>
    /\ UNCHANGED <<tasks, startReturned, event, serving>>
    /\ UNCHANGED <<addr, stratVars, udpVars, tcpVars, xferVars, lockVars>>

(***************************************************************************)
(* A session task as the manager sees it (protocol/udp.rs): it runs from   *)
(* the spawn on, dispatches each datagram through its own strategy, and    *)
(* ends on an empty datagram (Ok), on a socket error (Err) or on a panic   *)
(* of the strategy.  SpecUdp has the same loop send by send.               *)
(***************************************************************************)
NoEvent == [session |-> 0, dests |-> <<>>]

SessionDispatch_shared ==
    \E k \in 1..Len(tasks) :
      /\ tasks[k].status = "running"
      /\ LET c == Strategy_destinations(sessions[k].strategy) IN
           IF c.panic
           THEN /\ tasks' = [tasks EXCEPT ![k].status = "Panic"]
                /\ UNCHANGED <<sessions, event>>
           ELSE /\ sessions' = [o \in 1..Len(sessions) |->
                                  IF sessions[o] = sessions[k]
                                  THEN [sessions[o] EXCEPT !.strategy = c.after]
                                  ELSE sessions[o]]
                /\ event' = [session |-> k, dests |-> c.value]
                /\ UNCHANGED tasks
      /\ UNCHANGED <<database, started, created, restVars>>
      /\ UNCHANGED <<startReturned, sender, delivered, chanVars>>
      /\ UNCHANGED <<addr, stratVars, udpVars, tcpVars, xferVars, lockVars>>

SessionDispatch ==
    \E k \in 1..Len(tasks) :
      /\ tasks[k].status = "running"
      /\ LET c == Strategy_destinations(sessions[k].strategy) IN
           IF c.panic
           THEN /\ tasks' = [tasks EXCEPT ![k].status = "Panic"]
                /\ UNCHANGED <<sessions, event>>
           ELSE /\ sessions' = [sessions EXCEPT ![k].strategy = c.after]
                /\ event' = [session |-> k, dests |-> c.value]
                /\ UNCHANGED tasks
      /\ UNCHANGED <<database, started, created, restVars>>
      /\ UNCHANGED <<startReturned, sender, delivered, chanVars>>
      /\ UNCHANGED <<addr, stratVars, udpVars, tcpVars, xferVars, lockVars>>

SessionEnd_drops_rule ==
    \E k \in 1..Len(tasks), result \in {"Ok", "Err"} :
      /\ tasks[k].status = "running"
      /\ tasks' = [tasks EXCEPT ![k].status = result]
      /\ database' = [database EXCEPT ![tasks[k].id + 1] = None]
      /\ UNCHANGED <<sessions, started, created, restVars>>
      /\ UNCHANGED <<startReturned, sender, delivered, event, chanVars>>
      /\ UNCHANGED <<addr, stratVars, udpVars, tcpVars, xferVars, lockVars>>

\* The session returns: Ok after an empty datagram, Err after a failed
\* bind, recv or send_to.
SessionEnd ==
    \E k \in 1..Len(tasks), result \in {"Ok", "Err"} :
      /\ tasks[k].status = "running"
      /\ tasks' = [tasks EXCEPT ![k].status = result]
      /\ UNCHANGED <<database, sessions, started, created, restVars>>
      /\ UNCHANGED <<startReturned, sender, delivered, event, chanVars>>
      /\ UNCHANGED <<addr, stratVars, udpVars, tcpVars, xferVars, lockVars>>

(***************************************************************************)
(* The REST handlers (rest/handlers.rs) behind their routes                *)
(* (web/json/resources.rs): json_body rejects a body that is not a rule    *)
(* with 400 before the handler runs.                                       *)
(***************************************************************************)
Reply(op, id, status, body) ==
    [op |-> op, id |-> id, panic |-> FALSE, status |-> status, body |-> body]

\* The handler panicked: the connection is dropped without a response.
Panicked(op, id) ==
    [op |-> op, id |-> id, panic |-> TRUE, status |-> 0, body |-> <<>>]

NoReply == Reply("none", 0, 0, <<>>)

list_rules ==
    /\ serving
    /\ reply' = Reply("list", 0, 200, FilterMap(database))
    /\ ret' = None
    /\ request' = None
    /\ UNCHANGED <<database, sessions, started, created, mgrVars>>
    /\ UNCHANGED <<addr, stratVars, udpVars, tcpVars, xferVars, lockVars>>

create_rule ==
    /\ serving
    /\ \E body \in Bodies :
         /\ request' = body
         /\ IF body = None
            THEN /\ reply' = Reply("create", 0, 400, <<>>)
                 /\ ret' = None
                 /\ UNCHANGED <<database, created>>
            ELSE /\ Len(database) < MaxRules
                 /\ LET c == Database_create_rule(database, Unwrap(body)) IN
                      /\ database' = c.db
                      /\ created' = Append(created, c.id)
                      /\ reply' = Reply("create", c.id, 201, <<c.id>>)
                      /\ ret' = None
    /\ UNCHANGED <<sessions, started, mgrVars>>
    /\ UNCHANGED <<addr, stratVars, udpVars, tcpVars, xferVars, lockVars>>

\* match handle.drop_rule(id) / handle.update_rule(id, rule)
StatusOf(op, r) ==
    IF IsSome(r) THEN (IF op = "delete" THEN 204 ELSE 200) ELSE 404

delete_rule ==
    /\ serving
    /\ \E id \in RuleIds :
         LET c == Database_drop_rule(database, id) IN
         IF c.panic
         THEN /\ reply' = Panicked("delete", id)
              /\ ret' = None
              /\ UNCHANGED database
         ELSE /\ database' = c.db
              /\ ret' = c.ret
              /\ reply' = Reply("delete", id, StatusOf("delete", c.ret), <<>>)
    /\ request' = None
    /\ UNCHANGED <<sessions, started, created, mgrVars>>
    /\ UNCHANGED <<addr, stratVars, udpVars, tcpVars, xferVars, lockVars>>

update_rule_restarting ==
    /\ serving
    /\ \E id \in RuleIds, body \in Bodies :
         /\ request' = body
         /\ IF body = None
            THEN /\ reply' = Reply("update", id, 400, <<>>)
                 /\ ret' = None
                 /\ UNCHANGED <<database, sessions>>
            ELSE LET c == Database_update_rule(database, id, Unwrap(body)) IN
                 IF c.panic
                 THEN /\ reply' = Panicked("update", id)
                      /\ ret' = None
                      /\ UNCHANGED <<database, sessions>>
                 ELSE /\ database' = c.db
                      /\ ret' = c.ret
                      /\ reply' = Reply("update", id, StatusOf("update", c.ret), <<>>)
                      /\ sessions' =
                           [k \in 1..Len(sessions) |->
                              IF tasks[k].id = id
                              THEN SessionOf(Unwrap(body)) ELSE sessions[k]]
    /\ UNCHANGED <<started, created, mgrVars>>
    /\ UNCHANGED <<addr, stratVars, udpVars, tcpVars, xferVars, lockVars>>

update_rule ==
    /\ serving
    /\ \E id \in RuleIds, body \in Bodies :
         /\ request' = body
         /\ IF body = None
            THEN /\ reply' = Reply("update", id, 400, <<>>)
                 /\ ret' = None
                 /\ UNCHANGED database
            ELSE LET c == Database_update_rule(database, id, Unwrap(body)) IN
                 IF c.panic
                 THEN /\ reply' = Panicked("update", id)
                      /\ ret' = None
                      /\ UNCHANGED database
                 ELSE /\ database' = c.db
                      /\ ret' = c.ret
                      /\ reply' = Reply("update", id, StatusOf("update", c.ret), <<>>)
    /\ UNCHANGED <<sessions, started, created, mgrVars>>
    /\ UNCHANGED <<addr, stratVars, udpVars, tcpVars, xferVars, lockVars>>

\* Manager::new(config): addr is config.http.
Manager_new(http) ==
    /\ addr = http
    /\ database = Database_new
    /\ sessions = <<>>
    /\ started = FALSE
    /\ reply = NoReply
    /\ ret = None
    /\ created = <<>>
    /\ request = None
    /\ tasks = <<>>
    /\ startReturned = FALSE
    /\ sender = None
    /\ delivered = 0
    /\ event = NoEvent
    /\ serving = FALSE
    /\ shutdowns = <<>>

HttpAddrs == {None, Some("http")}

StoreInit == \E http \in HttpAddrs : Manager_new(http)

\* The manager where a specification does not exercise it.
StoreIdle == Manager_new(None)

(***************************************************************************)
(* Concurrent requests (rest/handlers.rs over DbRef = Arc<RwLock<..>>).    *)
(* warp runs every request in a task of its own; on a multi-threaded       *)
(* runtime the tasks run in parallel, so here a handler takes the lock,    *)
(* works on the store in the steps of the Database and iterator methods    *)
(* it calls, and drops the guard when it returns.                          *)
(***************************************************************************)
Clients == 1..MaxClients

Requests ==
    {[op |-> "list", id |-> 0, rule |-> None]}
    \cup { [op |-> "create", id |-> 0, rule |-> Some(r)] :
             r \in {UdpBroadcastRule, UdpRoundRobinRule} }
    \cup {[op |-> "delete", id |-> 0, rule |-> None]}
    \cup {[op |-> "update", id |-> 0, rule |-> Some(TcpBroadcastRule)]}

\* A request task before its request arrived.
NoHandler ==
    [pc |-> "idle", req |-> [op |-> "none", id |-> 0, rule |-> None],
     len |-> 0, pos |-> 0, rules |-> <<>>, seen |-> <<>>, reply |-> NoReply]

LockInit ==
    /\ rwlock = [writer |-> 0, readers |-> {}]
    /\ handler = [t \in Clients |-> NoHandler]

\* The lock where a specification has its handlers run in one step.
LockIdle == LockInit

lockFrame == <<sessions, started, created, restVars, mgrVars,
               stratVars, udpVars, tcpVars, xferVars>>

\* A request is routed to its handler, which asks for the lock.
HandlerCall ==
    /\ serving
    /\ \E t \in Clients, req \in Requests :
         /\ handler[t].pc = "idle"
         /\ handler' = [handler EXCEPT ![t].pc = "wait", ![t].req = req]
    /\ UNCHANGED <<database, rwlock>>
    /\ UNCHANGED lockFrame

CanWrite_unguarded(lock) == TRUE

\* db.write().await returns: nobody holds the lock.
CanWrite(lock) == lock.writer = 0 /\ lock.readers = {}

\* db.read().await returns: nobody writes.
CanRead(lock) == lock.writer = 0

\* The handler gets its guard.  seen is the store as it is now.
HandlerAcquire ==
    /\ \E t \in Clients :
         /\ handler[t].pc = "wait"
         /\ IF handler[t].req.op = "list"
            THEN /\ CanRead(rwlock)
                 /\ rwlock' = [rwlock EXCEPT !.readers = @ \cup {t}]
            ELSE /\ CanWrite(rwlock)
                 /\ rwlock' = [rwlock EXCEPT !.writer = t]
         /\ handler' = [handler EXCEPT ![t].pc = "hold", ![t].seen = database]
    /\ UNCHANGED database
    /\ UNCHANGED lockFrame

\* The guard is dropped: on return, or while the handler's panic unwinds.
Release(lock, t) ==
    [writer |-> IF lock.writer = t THEN 0 ELSE lock.writer,
     readers |-> lock.readers \ {t}]

\* list_rules: handle.rules.iter().filter_map(..).collect() visits the
\* entries one after the other; after the last one the reply is made and
\* the guard dropped.
HandlerList ==
    /\ \E t \in Clients :
         /\ handler[t].pc = "hold"
         /\ handler[t].req.op = "list"
         /\ IF handler[t].pos < Len(database)
            THEN /\ handler' =
                      [handler EXCEPT
                         ![t].pos = @ + 1,
                         ![t].rules =
                            @ \o FilterMap(<<database[handler[t].pos + 1]>>)]
                 /\ UNCHANGED rwlock
            ELSE /\ handler' =
                      [handler EXCEPT
                         ![t].pc = "done",
                         ![t].reply = Reply("list", 0, 200, handler[t].rules)]
                 /\ rwlock' = Release(rwlock, t)
    /\ UNCHANGED database
    /\ UNCHANGED lockFrame

\* create_rule, first half: let id = self.rules.len().
HandlerCreateLen ==
    /\ \E t \in Clients :
         /\ handler[t].pc = "hold"
         /\ handler[t].req.op = "create"
         /\ handler' = [handler EXCEPT ![t].pc = "push",
                                       ![t].len = CreateId(database)]
    /\ UNCHANGED <<database, rwlock>>
    /\ UNCHANGED lockFrame

\* create_rule, second half: self.rules.push(Some(rule)); the handler
\* replies 201 with the id and drops the guard.
HandlerCreatePush ==
    /\ \E t \in Clients :
         /\ handler[t].pc = "push"
         /\ database' =
              Database_create_rule(database, Unwrap(handler[t].req.rule)).db
         /\ handler' = [handler EXCEPT
                          ![t].pc = "done",
                          ![t].reply = Reply("create", handler[t].len, 201, <<>>)]
         /\ rwlock' = Release(rwlock, t)
    /\ UNCHANGED lockFrame

\* delete_rule and update_rule: one mem::replace on rules[id], which
\* panics when id is out of range; the guard is dropped either way.
HandlerReplace ==
    /\ \E t \in Clients :
         /\ handler[t].pc = "hold"
         /\ handler[t].req.op \in {"delete", "update"}
         /\ LET req == handler[t].req
                c == IF req.op = "delete"
                     THEN Database_drop_rule(database, req.id)
                     ELSE Database_update_rule(database, req.id, Unwrap(req.rule))
            IN  IF c.panic
                THEN /\ handler' = [handler EXCEPT
                                      ![t].pc = "done",
                                      ![t].reply = Panicked(req.op, req.id)]
                     /\ UNCHANGED database
                ELSE /\ handler' = [handler EXCEPT
                                      ![t].pc = "done",
                                      ![t].reply = Reply(req.op, req.id,
                                                         StatusOf(req.op, c.ret), <<>>)]
                     /\ database' = c.db
         /\ rwlock' = Release(rwlock, t)
    /\ UNCHANGED lockFrame

(***************************************************************************)
(* The specifications.                                                     *)
(***************************************************************************)
InitStrategy == StratInit /\ UdpIdle /\ StoreIdle /\ TcpIdle /\ XferIdle /\ LockIdle
NextStrategy == CallDestinations
SpecStrategy == InitStrategy /\ [][NextStrategy]_vars

InitUdp == StratIdle /\ UdpInit /\ StoreIdle /\ TcpIdle /\ XferIdle /\ LockIdle
NextUdp == UdpBind \/ UdpRecv \/ UdpRecvErr \/ UdpSendTo
SpecUdp == InitUdp /\ [][NextUdp]_vars

InitTcp == StratIdle /\ UdpIdle /\ StoreIdle /\ TcpInit /\ XferIdle /\ LockIdle
NextTcp ==
    \/ TcpBind
    \/ TcpAccept
    \/ TcpAcceptErr
    \/ TcpConnect
    \/ TcpRelay
    \/ TcpTransferEnd
SpecTcp == InitTcp /\ [][NextTcp]_vars

InitTransfer == StratIdle /\ UdpIdle /\ StoreIdle /\ TcpIdle /\ XferInit /\ LockIdle
NextTransfer ==
    \/ XferConnect
    \/ PumpRead
    \/ PumpWrite
    \/ PumpShutdown
    \/ PumpFail
    \/ XferJoin
SpecTransfer == InitTransfer /\ [][NextTransfer]_vars

InitLock ==
    /\ StratIdle /\ UdpIdle /\ TcpIdle /\ XferIdle
    /\ Manager_new(Some("http"))
    /\ LockInit
NextLock ==
    \/ Manager_start
    \/ HandlerCall
    \/ HandlerAcquire
    \/ HandlerList
    \/ HandlerCreateLen
    \/ HandlerCreatePush
    \/ HandlerReplace
SpecLock == InitLock /\ [][NextLock]_vars

Init == StratIdle /\ UdpIdle /\ StoreInit /\ TcpIdle /\ XferIdle /\ LockIdle
Next ==
    \/ Manager_add_rule
    \/ Manager_start
    \/ list_rules
    \/ create_rule
    \/ delete_rule
    \/ update_rule
Spec == Init /\ [][Next]_vars

\* The sessions the manager spawned, running beside the handlers that
\* change or remove the rules they were spawned for.
Sessions_add_rule == Len(sessions) < MaxSessionRules /\ Manager_add_rule

InitSessions == StratIdle /\ UdpIdle /\ StoreInit /\ TcpIdle /\ XferIdle /\ LockIdle
NextSessions ==
    \/ Sessions_add_rule
    \/ Manager_start
    \/ SessionDispatch
    \/ SessionEnd
    \/ delete_rule
    \/ update_rule
SpecSessions == InitSessions /\ [][NextSessions]_vars

\* The manager from new to the return of start, with its sessions and the
\* HTTP service it spawned.
InitManager == StratIdle /\ UdpIdle /\ StoreInit /\ TcpIdle /\ XferIdle /\ LockIdle
NextManager ==
    \/ Manager_add_rule
    \/ Manager_start
    \/ Manager_join
    \/ Manager_return
    \/ Manager_shutdown
    \/ Service_fail
    \/ SessionDispatch
    \/ SessionEnd
SpecManager == InitManager /\ [][NextManager]_vars

(***************************************************************************)
(* Properties of the strategies (checked under SpecStrategy).              *)
(***************************************************************************)
\* How often address a occurs in the sequence q.
Count(q, a) == Cardinality({ i \in 1..Len(q) : q[i] = a })

\* C1: for a round-robin strategy over N >= 1 destinations the i-th call
\* (from 0) returns exactly <<destinations[i mod N]>>, so every N
\* consecutive calls return each destination as often as the list holds
\* it, in list order with wrap-around.
C1_RoundRobinVisitsInOrder ==
    LET ds == stratRule.destinations
        N == Len(ds)
    IN  (stratRule.mode = "RoundRobin" /\ N >= 1) =>
          /\ ~stratPanicked
          /\ \A i \in 1..Len(returned) :
               returned[i] = <<ds[((i - 1) % N) + 1]>>
          /\ \A first \in 1..(Len(returned) - N + 1) :
               LET window == [j \in 1..N |-> returned[first + j - 1][1]]
               IN  \A a \in Dests : Count(window, a) = Count(ds, a)

\* C1 witness: a round-robin strategy over two or more distinct
\* destinations has been called often enough to wrap around.
C1_Witness ==
    /\ stratRule.mode = "RoundRobin"
    /\ Len(stratRule.destinations) >= 2
    /\ stratRule.destinations[1] # stratRule.destinations[2]
    /\ Len(returned) > Len(stratRule.destinations)

\* C2: every call on a broadcast strategy returns the whole destination
\* list of the rule, in list order, whatever calls were made before.
C2_BroadcastReturnsAll ==
    stratRule.mode = "Broadcast" =>
      /\ ~stratPanicked
      /\ \A i \in 1..Len(returned) : returned[i] = stratRule.destinations

\* C2 witness: a broadcast strategy over two or more destinations has been
\* called several times.
C2_Witness ==
    /\ stratRule.mode = "Broadcast"
    /\ Len(stratRule.destinations) >= 2
    /\ Len(returned) >= 3

(***************************************************************************)
(* Properties of the UDP session (checked under SpecUdp).  Datagrams are   *)
(* numbered from 0 in receive order; only the last one can be empty.       *)
(***************************************************************************)
\* The send_to calls issued for datagram k, in the order issued.
SendsOf(k) ==
    LET IsForK(e) == e.k = k IN SelectSeq(udpSent, IsForK)

\* The session is past datagram k: it went on to the next recv or ended.
Handled(k) == k < Len(udpRecvd) - 1 \/ udpPc \in {"recv", "done"}

\* The destinations the rule's strategy yields for datagram k (N >= 1 for
\* round-robin).
ExpectedDests(rule, k) ==
    IF rule.mode = "Broadcast"
    THEN rule.destinations
    ELSE <<rule.destinations[(k % Len(rule.destinations)) + 1]>>

\* C3: datagrams are handled in receive order, and for each received
\* non-empty datagram the session issues one send_to per destination the
\* strategy returned, in list order and with the received payload, all of
\* them before the next datagram is received; in broadcast mode each
\* destination is sent each datagram exactly once.
C3_FanOutPerDatagram ==
    (udpRule.mode = "Broadcast" \/ Len(udpRule.destinations) >= 1) =>
      /\ \A i, j \in 1..Len(udpSent) : i <= j => udpSent[i].k <= udpSent[j].k
      /\ \A k \in 0..(Len(udpRecvd) - 1) :
           (udpRecvd[k + 1].bytes > 0 /\ Handled(k)) =>
             LET sends == SendsOf(k)
                 dests == ExpectedDests(udpRule, k)
             IN  /\ Len(sends) = Len(dests)
                 /\ \A i \in 1..Len(sends) :
                      /\ sends[i].addr = dests[i]
                      /\ sends[i].payload = udpRecvd[k + 1]
                 /\ udpRule.mode = "Broadcast" =>
                      \A a \in Dests :
                        Count([i \in 1..Len(sends) |-> sends[i].addr], a)
                          = Count(udpRule.destinations, a)

\* C4: in a round-robin session over N >= 1 destinations the k-th
\* non-empty datagram is sent to destinations[k mod N] and nowhere else:
\* the j-th send_to of the session carries datagram j - 1 to that
\* destination, and no datagram gets a second send_to.
C4_RoundRobinPerDatagram ==
    LET ds == udpRule.destinations
        N == Len(ds)
        nonEmpty == Cardinality({ k \in 1..Len(udpRecvd) : udpRecvd[k].bytes > 0 })
    IN  (udpRule.mode = "RoundRobin" /\ N >= 1) =>
          /\ \A j \in 1..Len(udpSent) :
               /\ udpSent[j].k = j - 1
               /\ udpSent[j].addr = ds[((j - 1) % N) + 1]
               /\ udpSent[j].payload = udpRecvd[j]
          /\ Len(udpSent) = (IF udpPc = "send" THEN nonEmpty - 1 ELSE nonEmpty)

\* C4 witness: two distinct destinations and four datagrams, all sent:
\* the first destination was sent the first and third, the second the
\* second and fourth.
C4_Witness ==
    /\ udpRule.mode = "RoundRobin"
    /\ udpRule.destinations = <<"d1", "d2">>
    /\ Len(udpSent) = 4
    /\ \A j \in 1..4 : udpSent[j].ok
    /\ udpSent[1].payload # udpSent[2].payload
    /\ <<udpSent[1].addr, udpSent[2].addr, udpSent[3].addr, udpSent[4].addr>>
         = <<"d1", "d2", "d1", "d2">>

(***************************************************************************)
(* Properties of the rule store (checked under Spec).  A step whose new    *)
(* reply is that of a delete or update of id is a step of that handler.    *)
(***************************************************************************)
DeleteStep(id) == reply'.op = "delete" /\ reply'.id = id

\* An update whose body was a rule: json_body let it through.
UpdateStep(id) == reply'.op = "update" /\ reply'.id = id /\ reply'.status # 400

Tombstoned(db, id) == id < Len(db) /\ db[id + 1] = None

\* C5: the ids create hands out are strictly increasing, so none is handed
\* out twice, whatever updates and deletes happen in between.
C5_CreateIdsIncrease ==
    \A i, j \in 1..Len(created) : i < j => created[i] < created[j]

\* C5 witness: a second rule was created after the first one was deleted.
C5_Witness ==
    /\ Len(created) >= 2
    /\ reply.op = "create" /\ reply.status = 201
    /\ Tombstoned(database, 0)

\* C6: once delete has removed the rule of an id, the id stays not-found
\* through every later create, update and delete.
C6_DeletedStaysDeleted ==
    [][\A id \in RuleIds :
         Tombstoned(database, id) => Database_get_rule(database', id) = None]_vars

\* C7: deleting an active id returns the removed rule with 204 and leaves a
\* tombstone; deleting a tombstoned id returns nothing with 404 and leaves
\* the store as it was.
C7_DeleteThenDeleteAgain ==
    [][\A id \in RuleIds :
         (DeleteStep(id) /\ id < Len(database)) =>
           IF IsSome(database[id + 1])
           THEN /\ ret' = database[id + 1]
                /\ ~reply'.panic /\ reply'.status = 204
                /\ Tombstoned(database', id)
           ELSE /\ ret' = None
                /\ ~reply'.panic /\ reply'.status = 404
                /\ database' = database]_vars

\* C7 witness: a delete of an id that an earlier delete tombstoned was
\* answered 404.
C7_Witness ==
    /\ reply.op = "delete" /\ reply.status = 404
    /\ Tombstoned(database, reply.id)

\* C8: update and delete of an id that was never allocated answer 404 as
\* an ordinary result.
C8_UnallocatedIdIsNotFound ==
    (/\ reply.op \in {"update", "delete"}
     /\ reply.status # 400
     /\ reply.id >= Len(database))
    => (~reply.panic /\ reply.status = 404)

\* C9: update of a tombstoned id answers 404 and leaves the store as it
\* was.
C9_UpdateOfTombstone ==
    [][\A id \in RuleIds :
         (UpdateStep(id) /\ Tombstoned(database, id)) =>
           /\ ~reply'.panic /\ reply'.status = 404
           /\ database' = database]_vars

\* C10: no stored rule has protocol TCP and mode Broadcast.
C10_NoTcpBroadcastStored ==
    \A i \in 1..Len(database) :
      (IsSome(database[i]) /\ database[i][1].protocol = "Tcp")
        => database[i][1].mode = "RoundRobin"

\* A create that stored its rule under id.
CreateStep(id) ==
    /\ reply'.op = "create" /\ reply'.status = 201 /\ reply'.id = id
    /\ created' # created

\* The ids whose entry is a rule, and the place of a live id among them
\* (from 1) in ascending id order.
LiveIds(db) == { id \in 0..(Len(db) - 1) : IsSome(db[id + 1]) }
Place(db, id) == Cardinality({ j \in LiveIds(db) : j <= id })

\* The sequence s without its k-th element.
RemoveAt(s, k) == SubSeq(s, 1, k - 1) \o SubSeq(s, k + 1, Len(s))

\* C11: a create or update whose rule has an empty destination list is
\* answered 400 and leaves the store as it was, so every stored rule has at
\* least one destination.
C11_NoEmptyDestinations ==
    /\ (/\ reply.op \in {"create", "update"}
        /\ IsSome(request)
        /\ Unwrap(request).destinations = <<>>)
       => (~reply.panic /\ reply.status = 400)
    /\ \A i \in 1..Len(database) :
         IsSome(database[i]) => Len(database[i][1].destinations) >= 1

\* C12: a POST of a rule J is answered 201 with an id under which the store
\* holds J; every step that is not an update or delete of an id leaves the
\* entry of that id as it was; and GET /rules lists the rule of every live
\* id at the place of that id among the live ids.
C12_CreatedRuleIsServed ==
    [][\A id \in RuleIds :
         /\ CreateStep(id) =>
              /\ IsSome(request')
              /\ Database_get_rule(database', id) = request'
              /\ reply'.body = <<id>>
              /\ FilterMap(database')[Place(database', id)] = Unwrap(request')
         /\ (id < Len(database) /\ ~UpdateStep(id) /\ ~DeleteStep(id)) =>
              Database_get_rule(database', id) = Database_get_rule(database, id)
         /\ (reply'.op = "list" /\ id \in LiveIds(database)) =>
              /\ reply'.status = 200
              /\ reply'.body[Place(database, id)] = Unwrap(database[id + 1])]_vars

\* C12 witness: the rule posted under id 1 is still the one the store
\* holds after id 0 was deleted, and GET /rules has just listed it, alone.
C12_Witness ==
    /\ reply.op = "list"
    /\ Len(sessions) = 0
    /\ created = <<0, 1>>
    /\ Tombstoned(database, 0)
    /\ IsSome(Database_get_rule(database, 1))
    /\ reply.body = <<Unwrap(Database_get_rule(database, 1))>>

\* C13: the i-th successful create of the process (from 0) returns id i,
\* whether it came from the configuration or from POST /rules and whatever
\* was updated or deleted before it.
C13_CreateIdCountsCreates ==
    /\ \A i \in 1..Len(created) : created[i] = i - 1
    /\ (reply.op = "create" /\ reply.status = 201) =>
         /\ reply.id = Len(created) - 1
         /\ reply.body = <<Len(created) - 1>>

\* C13 witness: the configuration rule got id 0 and was deleted, and the
\* POST that followed was answered with id 1.
C13_Witness ==
    /\ Len(sessions) = 1
    /\ created = <<0, 1>>
    /\ reply.op = "create" /\ reply.status = 201 /\ reply.body = <<1>>
    /\ LiveIds(database) = {1}

\* C14: GET /rules returns the rules of the live ids and nothing else, each
\* once, in ascending id order.
C14_ListIsLiveRulesInIdOrder ==
    reply.op = "list" =>
      /\ ~reply.panic /\ reply.status = 200
      /\ Len(reply.body) = Cardinality(LiveIds(database))
      /\ \A id \in LiveIds(database) :
           reply.body[Place(database, id)] = Unwrap(database[id + 1])

\* C14 witness: two different rules are live and GET /rules listed both.
C14_Witness ==
    /\ reply.op = "list"
    /\ Len(reply.body) = 2
    /\ reply.body[1] # reply.body[2]

\* C15: an update of a live id with a rule r is answered 200, returns the
\* rule that was stored, stores r under the id, hands out no id and leaves
\* the entry of every other id as it was.
C15_UpdateReplacesOneEntry ==
    [][\A id \in RuleIds :
         (UpdateStep(id) /\ id \in LiveIds(database)) =>
           /\ ~reply'.panic /\ reply'.status = 200
           /\ ret' = database[id + 1]
           /\ IsSome(request')
           /\ Database_get_rule(database', id) = request'
           /\ Len(database') = Len(database)
           /\ created' = created
           /\ \A j \in 1..Len(database) :
                j # id + 1 => database'[j] = database[j]]_vars

\* C15 witness: id 0 of two live ids was updated to a rule other than the
\* one it had, which the update returned.
C15_Witness ==
    /\ reply.op = "update" /\ reply.status = 200 /\ reply.id = 0
    /\ LiveIds(database) = {0, 1}
    /\ ret # request
    /\ database[1] = request

\* C16: a delete of a live id leaves a tombstone under it, takes exactly
\* the rule of that id out of the list, leaves the entry of every other id
\* as it was and leaves the number of allocated ids as it was.
C16_DeleteTombstonesOneEntry ==
    [][\A id \in RuleIds :
         (DeleteStep(id) /\ id \in LiveIds(database)) =>
           /\ ~reply'.panic /\ reply'.status = 204
           /\ Tombstoned(database', id)
           /\ FilterMap(database')
                = RemoveAt(FilterMap(database), Place(database, id))
           /\ Len(database') = Len(database)
           /\ created' = created
           /\ \A j \in 1..Len(database) :
                j # id + 1 => database'[j] = database[j]]_vars

\* C16 witness: id 0 was deleted while id 1 stays live.
C16_Witness ==
    /\ reply.op = "delete" /\ reply.status = 204 /\ reply.id = 0
    /\ Len(database) = 2
    /\ LiveIds(database) = {1}

\* C17: every live rule of the store has had a session spawned for it.
C17_EveryRuleHasSession ==
    \A id \in LiveIds(database) :
      \E k \in 1..Len(tasks) : tasks[k].id = id

(***************************************************************************)
(* Properties of the running sessions (checked under SpecSessions) and of  *)
(* the manager's lifecycle (checked under SpecManager).                    *)
(***************************************************************************)
\* A step in which session k dispatched a datagram.
DispatchStep(k) == event' # event /\ event'.session = k

\* C18: from the delete of a rule on, the session spawned for the rule
\* dispatches no datagram.
C18_DeletedRuleForwardsNothing ==
    [][\A k \in 1..Len(tasks) :
         DispatchStep(k) => ~Tombstoned(database, tasks[k].id)]_vars

\* C19: an update leaves every session as it is: none is added, ended or
\* rebuilt, each keeps its source, destination list and cursor, and a
\* session goes on dispatching to what its own strategy yields.
C19_UpdateLeavesSessionsAlone ==
    [][/\ \A id \in RuleIds :
            (reply' # reply /\ UpdateStep(id)) =>
              (sessions' = sessions /\ tasks' = tasks /\ event' = event)
       /\ \A k \in 1..Len(sessions) :
            /\ sessions'[k].source = sessions[k].source
            /\ sessions'[k].strategy.peers = sessions[k].strategy.peers
            /\ DispatchStep(k) =>
                 event'.dests
                   = Strategy_destinations(sessions[k].strategy).value]_vars

\* C19 witness: the rule of a running round-robin session was replaced in
\* the store by a rule with other destinations; the session has dispatched
\* a datagram and its cursor stands at its second destination.
C19_Witness ==
    \E k \in 1..Len(tasks) :
      /\ tasks[k].status = "running"
      /\ sessions[k].strategy.kind = "RoundRobin"
      /\ sessions[k].strategy.next = 1
      /\ event.session = k
      /\ reply.op = "update" /\ reply.status = 200 /\ reply.id = tasks[k].id
      /\ Unwrap(Database_get_rule(database, tasks[k].id)).destinations
           # sessions[k].strategy.peers

\* shutdown was called beside a start that has not returned.
ShutdownWhileBlocked ==
    /\ started /\ ~startReturned
    /\ \E i \in 1..Len(shutdowns) : shutdowns[i].phase = "waiting"

\* C20: once shutdown was called beside a waiting start, start is not left
\* waiting for a session to end on its own: it can always take its next
\* step towards returning.
C20_ShutdownUnblocksStart ==
    ShutdownWhileBlocked => ENABLED (Manager_join \/ Manager_return)

\* The shutdown calls so far that delivered the event.
SentCalls == { i \in 1..Len(shutdowns) : shutdowns[i].result = "Sent" }

\* The first shutdown call made while start was waiting, if any.
FirstWaitingCall(i) ==
    /\ shutdowns[i].phase = "waiting"
    /\ \A j \in 1..(i - 1) : shutdowns[j].phase # "waiting"

C22_FailedSessionStopsNothing ==
    [][/\ \A k \in 1..Len(tasks) :
            (\/ (tasks[k].status = "running" /\ tasks'[k].status = "Err")
             \/ (~tasks[k].joined /\ tasks'[k].joined)) =>
              /\ \A j \in 1..Len(tasks) : j # k => tasks'[j] = tasks[j]
              /\ sessions' = sessions
              /\ startReturned' = startReturned
              /\ sender' = sender
       /\ startReturned' => \A k \in 1..Len(tasks') : tasks'[k].joined]_vars

\* C22 witness: start has taken the error of the first session and is
\* still waiting for the second one, which is running and has dispatched a
\* datagram.
C22_Witness ==
    /\ Len(tasks) = 2
    /\ tasks[1].status = "Err" /\ tasks[1].joined
    /\ tasks[2].status = "running"
    /\ event.session = 2
    /\ started /\ ~startReturned

(***************************************************************************)
(* More properties of the UDP session (checked under SpecUdp).             *)
(***************************************************************************)
\* C23: a send_to that fails does not end the session: the session goes on
\* to the remaining destinations of the datagram, and to the next receive
\* after the last of them.
C23_SendFailureContinues ==
    [][(/\ Len(udpSent') = Len(udpSent) + 1
        /\ ~udpSent'[Len(udpSent')].ok) =>
         /\ udpResult' = "running"
         /\ udpPending' = Tail(udpPending)
         /\ udpPc' = IF Tail(udpPending) = <<>> THEN "recv" ELSE "send"]_vars

\* C24: a datagram of zero bytes is the last thing the session receives:
\* the session is over with Ok, no send_to was issued for that datagram,
\* no step of the session is possible any more, and the strategy was not
\* asked for it (a round-robin cursor stands where the non-empty datagrams
\* before it left it).
C24_ZeroBytesEndsSession ==
    \A k \in 1..Len(udpRecvd) :
      udpRecvd[k].bytes = 0 =>
        /\ k = Len(udpRecvd)
        /\ udpPc = "done" /\ udpResult = "Ok"
        /\ SendsOf(k - 1) = <<>>
        /\ ~ENABLED NextUdp
        /\ (udpRule.mode = "RoundRobin" /\ Len(udpRule.destinations) >= 1) =>
             udpStrategy.next = (k - 1) % Len(udpRule.destinations)

\* C24 witness: a round-robin session over two destinations forwarded one
\* datagram and then received an empty one.
C24_Witness ==
    /\ udpRule.mode = "RoundRobin"
    /\ Len(udpRule.destinations) = 2
    /\ Len(udpRecvd) = 2
    /\ udpRecvd[1].bytes > 0 /\ udpRecvd[2].bytes = 0
    /\ Len(udpSent) = 1 /\ udpSent[1].ok
    /\ udpResult = "Ok"

\* C28: no two live rules of the store have the same protocol and source.
C28_NoDuplicateSource ==
    \A i, j \in LiveIds(database) :
      i # j =>
        <<database[i + 1][1].protocol, database[i + 1][1].source>>
          # <<database[j + 1][1].protocol, database[j + 1][1].source>>


(***************************************************************************)
(* The TCP session and its transfers.                                      *)
(***************************************************************************)
\* The step in which the dial of some transfer fails.
DialFails(c) ==
    /\ c \in 1..Len(tcpConns)
    /\ tcpConns[c].dial = "pending"
    /\ tcpConns'[c].dial = "failed"

\* C25: when the dial for an accepted connection fails, that connection is
\* closed and nothing is ever relayed for it, while the listener and the
\* other connections are left as they are: the session keeps accepting.
C25_DialFailureClosesInbound ==
    [][ /\ \A c \in 1..Len(tcpConns) :
             DialFails(c) =>
               /\ tcpConns'[c].state = "closed"
               /\ UNCHANGED <<tcpPc, tcpResult, tcpStrategy, tcpAccepted>>
               /\ \A o \in 1..Len(tcpConns) : o # c => tcpConns'[o] = tcpConns[o]
               /\ tcpPc = "accept" /\ tcpAccepted < MaxConns => ENABLED TcpAccept
        /\ \A c \in 1..Len(tcpConns') :
             tcpConns'[c].dial = "failed" =>
               tcpConns'[c].state = "closed" /\ ~tcpConns'[c].relayed
      ]_vars

\* The first connection's dial failed, it is closed with nothing relayed,
\* and a later connection was accepted, spliced and relayed while the
\* listener still accepts.
C25_Witness ==
    /\ Len(tcpConns) >= 2
    /\ tcpConns[1].dial = "failed"
    /\ tcpConns[1].state = "closed"
    /\ ~tcpConns[1].relayed
    /\ tcpConns[2].dial = "ok"
    /\ tcpConns[2].relayed
    /\ tcpPc = "accept"

\* C26: a transient error returned by accept leaves the session accepting;
\* only a fatal accept error ends it.
C26_TransientAcceptErrorRetried ==
    [][ ( /\ Len(tcpAcceptErrs') = Len(tcpAcceptErrs) + 1
          /\ tcpAcceptErrs'[Len(tcpAcceptErrs')] = "transient" )
        => tcpPc' = "accept" /\ tcpResult' = "running" ]_vars

\* C29: the strategy is asked once per accepted connection and the k-th
\* accepted connection (k from 0) is dialed to destinations[k mod N].
C29_OneDialPerConnection ==
    /\ tcpConsults = tcpAccepted
    /\ Len(tcpConns) = tcpAccepted
    /\ \A c \in 1..Len(tcpConns) :
         /\ tcpConns[c].k = c - 1
         /\ tcpConns[c].dest =
              tcpRule.destinations[(tcpConns[c].k % Len(tcpRule.destinations)) + 1]

\* C30: the assertion destinations.len() == 1 holds at every accepted
\* connection of a session whose rule is a TCP rule and whose strategy
\* StrategyFactory::make built.
C30_AssertionHolds ==
    tcpResult # "AssertFailed"


\* The bytes a pump has read so far, in the order it read them.
ReadSoFar(d) == SubSeq(xferStream[d], 1, pump[d].got)

\* The socket whose end-of-stream a pump meets, and the opposite one.
ReadsFrom(d) == IF d = "c2s" THEN "inbound" ELSE "outbound"
OtherSocket(sock) == IF sock = "inbound" THEN "outbound" ELSE "inbound"

\* A pump that is still copying.
Relaying(d) == pump[d].pc \in {"read", "write", "shutdown"}

Members(ds) == { ds[i] : i \in 1..Len(ds) }

\* C31: for every rule a strategy can be made from, every destinations()
\* call completes normally and returns at least one endpoint, each of them
\* a member of the rule's destination list.
C31_DestinationsReturnsMembers ==
    /\ ~stratPanicked
    /\ \A i \in 1..Len(returned) :
         /\ Len(returned[i]) >= 1
         /\ Members(returned[i]) \subseteq Members(stratRule.destinations)

\* C32: after construction and after any number of destinations() calls
\* the round-robin cursor is within 0 <= next < |destinations|, and every
\* call moved it from next to (next + 1) mod |destinations|: after n calls
\* it is n mod |destinations|.
C32_CursorInRange ==
    strat.kind = "RoundRobin" =>
      /\ 0 <= strat.next
      /\ strat.next < Len(strat.peers)
      /\ Len(strat.peers) > 0 =>
           strat.next = Len(returned) % Len(strat.peers)


(***************************************************************************)
(* Further properties of the manager's lifecycle (checked under            *)
(* SpecManager).                                                           *)
(***************************************************************************)
\* start is waiting in its loop over the sessions.
StartWaiting == started /\ ~startReturned

\* start has taken the result of every session it tracks.
AllJoined(ts) == \A k \in 1..Len(ts) : ts[k].joined

\* C33: add_rule can be called while start is running; the session of the
\* rule is tracked with the initial ones, so start waits for it as well.
C33_AddRuleWhileRunning ==
    (StartWaiting /\ Len(sessions) < MaxConfigRules) =>
      ENABLED ( /\ Manager_add_rule
                /\ Len(tasks') = Len(tasks) + 1
                /\ ~tasks'[Len(tasks')].joined )

\* The step in which start returns.
ReturnStep == ~startReturned /\ startReturned'

\* C37: when start has taken the result of the last session it tracks, it
\* returns, also with no session at all; in returning it gives up the
\* sender, the Shutdown action is sent exactly if it held one (and arrives
\* if the service still holds the receiver), and nothing is sent after.
C37_StartSendsOnceAndReturns ==
    /\ [](StartWaiting /\ AllJoined(tasks) => ENABLED Manager_return)
    /\ [][ /\ ReturnStep =>
                /\ AllJoined(tasks)
                /\ sender' = None
                /\ delivered' = IF IsSome(sender) /\ serving
                                THEN delivered + 1 ELSE delivered
           /\ startReturned => delivered' = delivered
         ]_vars

\* C37 witness: start has returned after its sessions ended, no shutdown
\* call was made, and the one Shutdown action start sent has arrived.
C37_Witness ==
    /\ startReturned
    /\ Len(tasks) >= 1
    /\ AllJoined(tasks)
    /\ shutdowns = <<>>
    /\ delivered = 1

\* A shutdown call made while the manager holds no sender.
ShutdownWithoutSender == Len(shutdowns') = Len(shutdowns) + 1 /\ sender = None

\* start is called after a shutdown call.
StartAfterShutdown == ~started /\ started' /\ Len(shutdowns) >= 1

\* What every step keeps of a shutdown call without a sender: nothing.
ShutdownForgotten ==
    ShutdownWithoutSender =>
      /\ delivered' = delivered
      /\ shutdowns'[Len(shutdowns')].result = "AlreadyShutDown"
      /\ UNCHANGED <<sender, started, startReturned, tasks, serving,
                     database, sessions>>

\* C40 as stated: a shutdown call without a sender delivers nothing,
\* returns Ok and changes nothing; a later start installs a fresh channel
\* and returns only when its sessions have ended.
C40_LaterStartMakesChannel ==
    [][ /\ ShutdownForgotten
        /\ StartAfterShutdown => IsSome(sender') /\ ~startReturned'
        /\ ReturnStep => AllJoined(tasks)
      ]_vars

\* C40 amended: a shutdown call without a sender delivers nothing, returns
\* Ok and changes nothing; a later start installs a fresh channel exactly
\* when an HTTP address is configured, and in either case returns only
\* when its sessions have ended.
C40_ShutdownWithoutSenderForgotten ==
    [][ /\ ShutdownForgotten
        /\ StartAfterShutdown =>
             /\ IsSome(sender') <=> IsSome(addr)
             /\ serving' <=> IsSome(addr)
             /\ ~startReturned'
        /\ ReturnStep => AllJoined(tasks)
      ]_vars

\* C40 witness: shutdown was called before start; start then made its
\* channel and is waiting for a session that still runs.
C40_Witness ==
    /\ Len(shutdowns) >= 1
    /\ shutdowns[1] = [phase |-> "new", result |-> "AlreadyShutDown"]
    /\ StartWaiting
    /\ IsSome(sender)
    /\ delivered = 0
    /\ \E k \in 1..Len(tasks) : tasks[k].status = "running"


\* C35: the strategy of a session is changed by that session's own
\* destinations() calls only, and what a call returns is what the
\* session's own strategy yields, whatever the other sessions did, also
\* when two sessions were made from equal rules.
C35_StrategyIsPrivate ==
    [][ \A k \in 1..Len(sessions) :
          /\ sessions'[k] # sessions[k] => DispatchStep(k)
          /\ DispatchStep(k) =>
               LET c == Strategy_destinations(sessions[k].strategy) IN
               /\ ~c.panic
               /\ event'.dests = c.value
               /\ sessions'[k].strategy = c.after
               /\ \A o \in 1..Len(sessions) : o # k => sessions'[o] = sessions[o]
      ]_vars

\* C35 witness: two sessions of equal round-robin rules; the first one has
\* dispatched a datagram and moved its cursor, the cursor of the second
\* one is where it was made.
C35_Witness ==
    /\ Len(sessions) = 2
    /\ sessions[1].source = sessions[2].source
    /\ sessions[1].strategy.kind = "RoundRobin"
    /\ sessions[1].strategy.peers = sessions[2].strategy.peers
    /\ sessions[2].strategy.kind = "RoundRobin"
    /\ event.session = 1
    /\ sessions[1].strategy.next = 1
    /\ sessions[2].strategy.next = 0

(***************************************************************************)
(* No reply path in the UDP session (checked under SpecUdp).               *)
(***************************************************************************)
\* C36: every send_to of the session targets an element of the rule's
\* destination list, and the address a datagram came from is not used: a
\* sender that is no destination is never sent anything.
C36_NoReplyPath ==
    \A i \in 1..Len(udpSent) :
      LET from == WireFrom(udpSent[i].payload.tag) IN
      /\ udpSent[i].addr \in Members(udpRule.destinations)
      /\ from \notin Members(udpRule.destinations) => udpSent[i].addr # from

\* C36 witness: under a broadcast rule a datagram of a client and then a
\* datagram of one of the destinations were forwarded, each to the two
\* destinations of the rule and to nobody else.
C36_Witness ==
    /\ udpRule.mode = "Broadcast"
    /\ udpRule.destinations = <<"d1", "d2">>
    /\ Len(udpSent) = 4
    /\ \A i \in 1..4 : udpSent[i].ok
    /\ WireFrom(udpSent[1].payload.tag) = "c1"
    /\ WireFrom(udpSent[3].payload.tag) = "d1"
    /\ <<udpSent[1].addr, udpSent[2].addr, udpSent[3].addr, udpSent[4].addr>>
         = <<"d1", "d2", "d1", "d2">>


(***************************************************************************)
(* The store beside ending sessions (checked under SpecSessions).          *)
(***************************************************************************)
\* A step of a handler that writes the store.
WriteHandlerStep ==
    /\ reply' # reply \/ request' # request
    /\ reply'.op \in {"create", "update", "delete"}

\* The step in which session k ends, with a result or in a panic.
EndStep(k) == tasks[k].status = "running" /\ tasks'[k].status # "running"

\* C38: the store changes only in a create (of add_rule or of the create
\* handler), an update or a delete; the step in which a session ends
\* leaves the store as it is, so its rule stays listed under its id.
C38_OnlyWritesChangeStore ==
    [][ /\ database' # database =>
             Len(created') = Len(created) + 1 \/ WriteHandlerStep
        /\ \A k \in 1..Len(tasks) :
             EndStep(k) =>
               /\ database' = database
               /\ FilterMap(database') = FilterMap(database)
               /\ Database_get_rule(database', tasks[k].id)
                    = Database_get_rule(database, tasks[k].id)
      ]_vars

\* C38 witness: a session has ended with an error while the manager runs,
\* and its rule is still stored under the id it was created with and
\* listed.
C38_Witness ==
    /\ started
    /\ \E k \in 1..Len(tasks) :
         /\ tasks[k].status = "Err"
         /\ IsSome(Database_get_rule(database, tasks[k].id))
         /\ FilterMap(database) # <<>>


(***************************************************************************)
(* A failing pump (checked under SpecTransfer).                            *)
(***************************************************************************)
\* The step in which the pump of direction d fails with an I/O error.
FailStep(d) == Relaying(d) /\ pump'[d].pc = "failed"

\* What the failure of a pump does to the transfer and to the listener.
FailureEndsTransfer(d) ==
    /\ xferPc' = "closed"
    /\ xferResult' = "Err"
    /\ wrShut' = wrShut
    /\ UNCHANGED tcpVars

\* C39 as stated: when a pump fails the transfer ends at once with the
\* error, the other pump is abandoned and has not shut down the write half
\* it copied into, both sockets are closed and the listener is untouched.
C39_OtherPumpAbandoned ==
    [][ /\ xferPc = "closed" => UNCHANGED xferVars
        /\ \A d \in Dirs :
             FailStep(d) =>
               /\ FailureEndsTransfer(d)
               /\ pump'[Opp(d)].pc = "abandoned"
               /\ ~wrShut'[OtherSocket(ReadsFrom(Opp(d)))]
      ]_vars

\* C39 amended: when a pump fails the transfer ends at once with the
\* error, both sockets are closed and the listener is untouched; the other
\* pump, unless it had completed before (its half-close done), is
\* abandoned where it stands and has not shut down the write half it
\* copied into.
C39_FailureEndsTransfer ==
    [][ /\ xferPc = "closed" => UNCHANGED xferVars
        /\ \A d \in Dirs :
             FailStep(d) =>
               /\ FailureEndsTransfer(d)
               /\ IF pump[Opp(d)].pc = "done"
                  THEN pump'[Opp(d)] = pump[Opp(d)]
                  ELSE /\ pump'[Opp(d)] = [pump[Opp(d)] EXCEPT !.pc = "abandoned"]
                       /\ ~wrShut'[OtherSocket(ReadsFrom(Opp(d)))]
      ]_vars

\* C39 witness: the client-to-server pump failed while the other pump was
\* relaying: it had written a byte and is abandoned with the inbound write
\* half still open; the transfer is over with the error.
C39_Witness ==
    /\ xferPc = "closed"
    /\ xferResult = "Err"
    /\ pump["c2s"].pc = "failed"
    /\ pump["s2c"].pc = "abandoned"
    /\ Len(pump["s2c"].put) >= 1
    /\ ~wrShut["inbound"]


(***************************************************************************)
(* Concurrent requests on the store (checked under SpecLock).              *)
(***************************************************************************)
\* The tasks whose create handler has replied.
Creators == { t \in Clients : handler[t].req.op = "create" /\ handler[t].pc = "done" }

\* The tasks between taking and dropping a guard.
Holding == { t \in Clients : handler[t].pc \in {"hold", "push"} }

\* A delete or update has reached the store or may be about to.
Overwriting ==
    \E t \in Clients :
      handler[t].req.op \in {"delete", "update"} /\ handler[t].pc # "idle"

\* C34: writes are serialized and atomic for readers.  A writer holds the
\* lock alone; creates that ran concurrently replied distinct ids, every
\* one below the length of the store, and each rule is stored under its id
\* (as long as no delete or update was sent for it); the store does not
\* change under a reader, whose list is that of the store as it was when
\* the reader got the lock, which no write was in the middle of.
C34_WritesSerialized ==
    /\ rwlock.writer # 0 => Holding = {rwlock.writer}
    /\ rwlock.writer = 0 => Holding = rwlock.readers
    /\ \A t, u \in Creators :
         t # u => handler[t].reply.id # handler[u].reply.id
    /\ \A t \in Creators :
         /\ handler[t].reply.id < Len(database)
         /\ ~Overwriting =>
              Database_get_rule(database, handler[t].reply.id) = handler[t].req.rule
    /\ Len(database) = Cardinality(Creators)
    /\ \A t \in Clients :
         handler[t].req.op = "list" =>
           /\ handler[t].pc = "hold" =>
                /\ database = handler[t].seen
                /\ handler[t].rules = FilterMap(SubSeq(database, 1, handler[t].pos))
           /\ handler[t].pc = "done" =>
                handler[t].reply.body = FilterMap(handler[t].seen)

\* C34 witness: three requests at once.  One create has replied id 0; the
\* other create holds the lock between reading the length, 1, and its
\* push, while the list waits for the lock.
C34_Witness ==
    /\ handler[2].req.op = "create"
    /\ handler[2].pc = "done"
    /\ handler[2].reply.id = 0
    /\ handler[1].req.op = "create"
    /\ handler[1].pc = "push"
    /\ handler[1].len = 1
    /\ rwlock.writer = 1
    /\ handler[3].req.op = "list"
    /\ handler[3].pc = "wait"

====
